---- MODULE Spec2Model ----
(***************************************************************************)
(* Model of src/routes/hotels.ts: the five request handlers of the hotel   *)
(* router (search, list all, get by id, create payment intent, confirm     *)
(* booking) and the helper constructSearchQuery.                           *)
(*                                                                         *)
(* State: the hotel collection (MongoDB), the payment provider's intents   *)
(* and customers (Stripe), the requests being handled (each with the       *)
(* position of its handler and its local variables) and the request whose  *)
(* handler ended last, with the response it sent.                          *)
(* A handler runs from one await to the next in one step: a step is one    *)
(* database or provider call together with the synchronous code after it.  *)
(* History variables record what the claims count: the payment intents     *)
(* the payment-intent endpoint has handed out, the bookings confirmed      *)
(* with 200, and the pages a paging client has received.                   *)
(***************************************************************************)
EXTENDS Integers, Sequences, FiniteSets, Bags, TLC

VARIABLES
  hotels,      \* the hotel collection, in natural order
  intents,     \* the provider's payment intents, by id
  customers,   \* the number of customers the provider holds
  inflight,    \* the bag of requests whose handler waits at an await
  completed,   \* the request whose handler ended last, with its response
  accepted,    \* the number of requests accepted so far
  issued,      \* history: intents handed out by the payment-intent endpoint
  confirmed,   \* history: confirm-booking requests answered 200, in order
  client       \* history: the responses a paging client has received

vars == <<hotels, intents, customers, inflight, completed, accepted,
          issued, confirmed, client>>

---------------------------------------------------------------------------
(* Bounds of the model *)

\* requests accepted in one behaviour of Spec
MaxRequests == 3
\* size of the collection paged through in SpecPage
MaxHotels == 6
\* pages a client asks for, in order, in SpecPage
MaxPage == 3
\* size of the collection searched in SpecFilter
MaxFilterHotels == 2

(* Program constants *)

\* hotels.ts:30  const pageSize = 5
pageSize == 5

---------------------------------------------------------------------------
(* Strings. A string whose characters the code looks at (a regular         *)
(* expression source, a decimal number) is a tuple of one-character        *)
(* strings, so that matching and parsing are computed, not assumed.        *)

Digits == {"0", "1", "2", "3", "4", "5", "6", "7", "8", "9"}

DigitValue(c) ==
  CASE c = "0" -> 0 [] c = "1" -> 1 [] c = "2" -> 2 [] c = "3" -> 3
    [] c = "4" -> 4 [] c = "5" -> 5 [] c = "6" -> 6 [] c = "7" -> 7
    [] c = "8" -> 8 [] c = "9" -> 9

RECURSIVE ParseDigits(_, _, _)
ParseDigits(s, i, acc) ==
  IF i > Len(s) \/ s[i] \notin Digits
    THEN acc
    ELSE ParseDigits(s, i + 1, acc * 10 + DigitValue(s[i]))

\* parseInt(s, 10) on a string that starts with a digit: the value of the
\* longest prefix of digits (what follows the prefix is ignored).
parseInt(s) == ParseDigits(s, 1, 0)

\* String.prototype.toLowerCase on the letters the model uses
Lower(c) ==
  CASE c = "G" -> "g" [] c = "O" -> "o" [] c = "A" -> "a"
    [] c = "I" -> "i" [] c = "N" -> "n" [] c = "U" -> "u" [] c = "K" -> "k"
    [] OTHER -> c

\* new RegExp(source, "i").test(s) for a source of plain letters: s holds
\* the source somewhere, letter case ignored.
RegExpTestI(source, s) ==
  \E k \in 0..(Len(s) - Len(source)) :
    \A i \in 1..Len(source) : Lower(s[k + i]) = Lower(source[i])

---------------------------------------------------------------------------
(* Query-string parameters (req.query). A parameter is absent, a string,   *)
(* or an array of strings (a repeated parameter).                          *)

Absent == [kind |-> "absent", val |-> <<>>]
\* sortOption is only compared with whole strings, so it stays a string
AbsentOption == [kind |-> "absent", val |-> ""]
Str(s) == [kind |-> "string", val |-> s]
Arr(a) == [kind |-> "array", val |-> a]

\* JavaScript truthiness of a query parameter: undefined and "" are falsy,
\* every other string and every array is truthy.
Truthy(v) == v.kind = "array" \/ (v.kind = "string" /\ v.val # <<>>)

\* Array.isArray(v) ? v : [v]
AsArray(v) == IF v.kind = "array" THEN v.val ELSE <<v.val>>

\* one optional field of the query object under construction
Field(present, key, cond) == IF present THEN key :> cond ELSE << >>

\* the stars branch: every entry goes through parseInt
StarRatings(v) == [i \in DOMAIN AsArray(v) |-> parseInt(AsArray(v)[i])]

\* mutant of PriceCond: the comparison turned round
PriceCondAtLeast(queryParams) ==
  [op |-> "$gte", arg |-> parseInt(queryParams.maxPrice.val)]

\* lines 251-255

PriceCond(queryParams) ==
  [op |-> "$lte", arg |-> parseInt(queryParams.maxPrice.val)]

constructSearchQuery(queryParams) ==
     Field(Truthy(queryParams.destination), "$or",
           [op |-> "$or",
            arg |-> << [field |-> "city", regex |-> queryParams.destination.val],
                       [field |-> "country", regex |-> queryParams.destination.val] >>])
  @@ Field(Truthy(queryParams.adultCount), "adultCount",
           [op |-> "$gte", arg |-> parseInt(queryParams.adultCount.val)])
  @@ Field(Truthy(queryParams.childCount), "childCount",
           [op |-> "$gte", arg |-> parseInt(queryParams.childCount.val)])
  @@ Field(Truthy(queryParams.facilities), "facilities",
           [op |-> "$all", arg |-> AsArray(queryParams.facilities)])
  @@ Field(Truthy(queryParams.types), "type",
           [op |-> "$in", arg |-> AsArray(queryParams.types)])
  @@ Field(Truthy(queryParams.stars), "starRating",
           [op |-> "$in", arg |-> StarRatings(queryParams.stars)])
  @@ Field(Truthy(queryParams.maxPrice), "pricePerNight",
           PriceCond(queryParams))

---------------------------------------------------------------------------
(* The document store: what MongoDB does with the query object.            *)

InArray(x, a) == \E i \in DOMAIN a : a[i] = x

\* one condition of a filter, on document doc
CondHolds(doc, key, cond) ==
  CASE cond.op = "$or"  -> \E i \in DOMAIN cond.arg :
                             RegExpTestI(cond.arg[i].regex, doc[cond.arg[i].field])
    [] cond.op = "$gte" -> doc[key] >= cond.arg
    [] cond.op = "$lte" -> doc[key] <= cond.arg
    [] cond.op = "$all" -> \A i \in DOMAIN cond.arg : InArray(cond.arg[i], doc[key])
    [] cond.op = "$in"  -> InArray(doc[key], cond.arg)

\* a filter is the conjunction of its fields' conditions
MongoMatches(doc, query) ==
  \A key \in DOMAIN query : CondHolds(doc, key, query[key])

\* the matching documents, in the collection's natural order
MatchingDocs(coll, query) == SelectSeq(coll, LAMBDA d : MongoMatches(d, query))

\* a precedes-or-ties b under sort specification <<[field, dir]>>
InSortOrder(a, b, sortOptions) ==
  \A i \in DOMAIN sortOptions :
    IF sortOptions[i].dir = 1
      THEN a[sortOptions[i].field] <= b[sortOptions[i].field]
      ELSE a[sortOptions[i].field] >= b[sortOptions[i].field]

\* The orders a sort may return. Without sort keys the documents come in
\* natural order. With sort keys, documents with equal keys come in an
\* order the database chooses per execution (MongoDB: "documents
\* containing those values may be returned in any order").
SortOrders(docs, sortOptions) ==
  IF Len(sortOptions) = 0
    THEN {docs}
    ELSE { [i \in 1..Len(docs) |-> docs[p[i]]] :
             p \in { p \in Permutations(1..Len(docs)) :
                       \A i \in 1..(Len(docs) - 1) :
                         InSortOrder(docs[p[i]], docs[p[i + 1]], sortOptions) } }

\* cursor.skip(n).limit(m)
SkipLimit(docs, skip, limit) ==
  SubSeq(docs, skip + 1, IF skip + limit < Len(docs) THEN skip + limit ELSE Len(docs))

\* the results Hotel.find(query).sort(s).skip(n).limit(m) may return
FindResults(coll, query, sortOptions, skip, limit) ==
  { SkipLimit(o, skip, limit) : o \in SortOrders(MatchingDocs(coll, query), sortOptions) }

\* Hotel.countDocuments(query)
countDocuments(coll, query) == Len(MatchingDocs(coll, query))

\* Hotel.findById(id): the document, or null
NoDoc == [_id |-> 0]
findById(coll, id) ==
  IF \E i \in DOMAIN coll : coll[i]._id = id
    THEN coll[CHOOSE i \in DOMAIN coll : coll[i]._id = id]
    ELSE NoDoc

\* Math.ceil(a / b) for a >= 0, b > 0
MathCeilDiv(a, b) == (a + b - 1) \div b

---------------------------------------------------------------------------
(* Requests. A request keeps its handler's local variables and, once the   *)
(* handler has ended, the response: status 0 means no response was sent.   *)
(* threw records that a database or provider call of the request threw,    *)
(* dbCalls counts the database operations the request has issued, and      *)
(* confirmedBefore is the number of bookings that had been confirmed when  *)
(* a confirm-booking request retrieved its payment intent.                 *)

Users == {"u1", "u2"}
\* hotel ids a URL may name; SeedHotels holds 1 and 2, no document has id 3
HotelIds == {1, 2, 3}
Nights == {2}
\* payment-intent ids a client may send: ids the provider has issued or not
IntentIds == {1, 2}

NoIntent == [id |-> 0]
NoQuery == [page |-> Absent, sortOption |-> AbsentOption]
NoBody == [none |-> TRUE]

NewRequest(endpoint, userId, hotelId, body, queryParams) ==
  [endpoint |-> endpoint, userId |-> userId, hotelId |-> hotelId,
   body |-> body, query |-> queryParams,
   pc |-> "start", dbCalls |-> 0, threw |-> FALSE, paymentIntent |-> NoIntent,
   confirmedBefore |-> 0,
   local |-> << >>, status |-> 0, message |-> "", data |-> << >>]

NoRequest == NewRequest("none", "", 0, NoBody, NoQuery)

\* res.status(s).json({message}) / res.json(data): the handler is done
Respond(r, status, message, data) ==
  [r EXCEPT !.pc = "done", !.status = status, !.message = message, !.data = data]

\* the catch block: a call threw and the handler answers 500
Caught(r, message) ==
  [Respond(r, 500, message, << >>) EXCEPT !.threw = TRUE]

\* mutant of DbCall: the operation is issued twice
DbCallTwice(r) == [r EXCEPT !.dbCalls = @ + 2]

\* a database operation is issued
DbCall(r) == [r EXCEPT !.dbCalls = @ + 1]

\* the handler of r0 ends as r
Finish(r0, r) ==
  /\ inflight' = inflight (-) SetToBag({r0})
  /\ completed' = r

\* the handler of r0 reaches its next await as r
Await(r0, r) ==
  /\ inflight' = (inflight (-) SetToBag({r0})) (+) SetToBag({r})
  /\ UNCHANGED completed

\* the requests whose handler waits at pc
Waiting(endpoint, pc) ==
  { r \in BagToSet(inflight) : r.endpoint = endpoint /\ r.pc = pc }

\* the switch on req.query.sortOption
SortOptionsOf(sortOption) ==
  CASE sortOption = Str("starRating")        -> << [field |-> "starRating", dir |-> -1] >>
    [] sortOption = Str("pricePerNightAsc")  -> << [field |-> "pricePerNight", dir |-> 1] >>
    [] sortOption = Str("pricePerNightDesc") -> << [field |-> "pricePerNight", dir |-> -1] >>
    [] OTHER -> << >>

\* parseInt(req.query.page?.toString() || "1", 10)
PageNumberOf(page) == parseInt(IF Truthy(page) THEN page.val ELSE <<"1">>)

\* line 32
SkipOf(pageNumber) == (pageNumber - 1) * pageSize

---------------------------------------------------------------------------
(* GET /search *)

\* lines 15-37: build the query, the sort and the skip, then await find
Search(queryParams) ==
  LET query == constructSearchQuery(queryParams)
      sortOptions == SortOptionsOf(queryParams.sortOption)
      pageNumber == PageNumberOf(queryParams.page)
      skip == SkipOf(pageNumber)
      r0 == DbCall(NewRequest("search", "", 0, NoBody, queryParams))
  IN  /\ accepted' = accepted + 1
      /\ \/ \E found \in FindResults(hotels, query, sortOptions, skip, pageSize) :
              Await(r0, [r0 EXCEPT !.pc = "count", !.local = found])
         \/ Finish(r0, Caught(r0, "Something went wrong while searching hotels"))
      /\ UNCHANGED <<hotels, intents, customers, issued, confirmed, client>>

\* lines 39-50: await countDocuments, then send the page
SearchCount(r0) ==
  /\ r0 \in Waiting("search", "count")
  /\ LET r == DbCall(r0)
         total == countDocuments(hotels, constructSearchQuery(r.query))
         pageNumber == PageNumberOf(r.query.page)
     IN  \/ Finish(r0, Respond(r, 200, "",
               [data |-> r.local,
                pagination |-> [total |-> total, page |-> pageNumber,
                                pages |-> MathCeilDiv(total, pageSize)]]))
         \/ Finish(r0, Caught(r, "Something went wrong while searching hotels"))
  /\ UNCHANGED <<hotels, intents, customers, accepted, issued, confirmed, client>>

---------------------------------------------------------------------------
(* GET / *)

ListAll ==
  LET r0 == DbCall(NewRequest("list", "", 0, NoBody, NoQuery))
  IN  /\ accepted' = accepted + 1
      /\ \/ \E found \in SortOrders(hotels, << [field |-> "lastUpdated", dir |-> -1] >>) :
              Finish(r0, Respond(r0, 200, "", found))
         \/ Finish(r0, Caught(r0, "Error fetching hotels"))
      /\ UNCHANGED <<hotels, intents, customers, issued, confirmed, client>>

---------------------------------------------------------------------------
(* GET /:id  (the route matches a non-empty id only, so the validation     *)
(* result of param("id").notEmpty() is always empty)                       *)

GetById(id) ==
  LET r0 == DbCall(NewRequest("get", "", id, NoBody, NoQuery))
      hotel == findById(hotels, id)
  IN  /\ accepted' = accepted + 1
      /\ \/ IF hotel = NoDoc
              THEN Finish(r0, Respond(r0, 404, "Hotel not found", << >>))
              ELSE Finish(r0, Respond(r0, 200, "", hotel))
         \/ Finish(r0, Caught(r0, "Error fetching hotel"))
      /\ UNCHANGED <<hotels, intents, customers, issued, confirmed, client>>

---------------------------------------------------------------------------
(* POST /:hotelId/bookings/payment-intent *)

\* What becomes of a request whose async handler rejects: the handler has
\* sent nothing. Express 4 leaves the request unanswered (status 0);
\* Express 5 hands the rejection to its error handler, which answers 500.
RejectionOutcomes == {0, 500}

\* the handler's promise rejects: a call threw outside any try block
Reject(r, outcome) ==
  [r EXCEPT !.pc = "rejected", !.threw = TRUE, !.status = outcome]

\* lines 100-108: await Hotel.findById, outside the try block
PaymentIntent(userId, hotelId, numberOfNights) ==
  LET r0 == DbCall(NewRequest("paymentIntent", userId, hotelId,
                              [numberOfNights |-> numberOfNights], NoQuery))
      hotel == findById(hotels, hotelId)
  IN  /\ accepted' = accepted + 1
      /\ \/ IF hotel = NoDoc
              THEN Finish(r0, Respond(r0, 400, "Hotel not found", << >>))
              ELSE Await(r0, [r0 EXCEPT !.pc = "customer",
                                !.local = [totalCost |-> hotel.pricePerNight * numberOfNights]])
         \/ \E outcome \in RejectionOutcomes : Finish(r0, Reject(r0, outcome))
      /\ UNCHANGED <<hotels, intents, customers, issued, confirmed, client>>

\* lines 112-121: await stripe.customers.create
PaymentIntentCustomer(r) ==
  /\ r \in Waiting("paymentIntent", "customer")
  /\ \/ /\ customers' = customers + 1
        /\ Await(r, [r EXCEPT !.pc = "createIntent",
                       !.local = [totalCost |-> r.local.totalCost,
                                  customer |-> customers + 1]])
     \/ /\ Finish(r, Caught(r, "Error creating payment intent"))
        /\ UNCHANGED customers
  /\ UNCHANGED <<hotels, intents, accepted, issued, confirmed, client>>

\* lines 124-139: await stripe.paymentIntents.create, then send its id
PaymentIntentCreate(r) ==
  /\ r \in Waiting("paymentIntent", "createIntent")
  /\ LET paymentIntent ==
           [id |-> Len(intents) + 1,
            amount |-> r.local.totalCost * 100,
            customer |-> r.local.customer,
            metadata |-> [hotelId |-> r.hotelId, userId |-> r.userId],
            status |-> "requires_payment_method"]
     IN  \/ /\ intents' = Append(intents, paymentIntent)
            /\ issued' = issued \cup { [paymentIntentId |-> paymentIntent.id,
                                        hotelId |-> r.hotelId, userId |-> r.userId] }
            /\ Finish(r, Respond(r, 200, "",
                 [paymentIntentId |-> paymentIntent.id, totalCost |-> r.local.totalCost]))
         \/ /\ Finish(r, Caught(r, "Error creating payment intent"))
            /\ UNCHANGED <<intents, issued>>
  /\ UNCHANGED <<hotels, customers, accepted, confirmed, client>>

\* The provider's side of the flow: the client pays with the client secret
\* and the intent, which confirm booking retrieves, becomes "succeeded".
PaymentSucceeds(id) ==
  /\ id \in DOMAIN intents
  /\ intents[id].status = "requires_payment_method"
  /\ intents' = [intents EXCEPT ![id].status = "succeeded"]
  /\ UNCHANGED <<hotels, customers, inflight, completed, accepted,
                 issued, confirmed, client>>

---------------------------------------------------------------------------
(* POST /:hotelId/bookings *)

\* the body fields a client sends besides the booking's own details:
\* paymentIntentId, and possibly a userId of its choosing
Bodies ==
  { [paymentIntentId |-> id] : id \in IntentIds }
    \cup { [paymentIntentId |-> id, userId |-> "u2"] : id \in IntentIds }

\* { ...a, ...b }: the fields of both, b's value where both have the field
ObjectSpread(a, b) ==
  [k \in DOMAIN a \cup DOMAIN b |-> IF k \in DOMAIN b THEN b[k] ELSE a[k]]

\* mutant of NewBooking: the spread comes last, so the body's userId wins
NewBookingBodyLast(body, userId) == ObjectSpread([userId |-> userId], body)

\* lines 179-182
NewBooking(body, userId) == ObjectSpread(body, [userId |-> userId])

\* mutant of MetadataMismatch: the user is not compared
MetadataMismatchHotelOnly(paymentIntent, hotelId, userId) ==
  paymentIntent.metadata.hotelId # hotelId

\* lines 164-167
MetadataMismatch(paymentIntent, hotelId, userId) ==
  \/ paymentIntent.metadata.hotelId # hotelId
  \/ paymentIntent.metadata.userId # userId

\* mutant of NotSucceeded: the status is not checked
StatusUnchecked(paymentIntent) == FALSE

\* mutant of NotSucceeded: an intent already confirmed is refused
NotSucceededOrUsed(paymentIntent) ==
  \/ paymentIntent.status # "succeeded"
  \/ \E k \in DOMAIN confirmed : confirmed[k].paymentIntentId = paymentIntent.id

\* line 173
NotSucceeded(paymentIntent) == paymentIntent.status # "succeeded"

\* mutant of PushBooking: the update has no filter
PushBookingEverywhere(coll, hotelId, newBooking) ==
  [i \in DOMAIN coll |-> [coll[i] EXCEPT !.bookings = Append(@, newBooking)]]

\* $push: { bookings: newBooking } on the document with _id = hotelId
PushBooking(coll, hotelId, newBooking) ==
  [i \in DOMAIN coll |->
     IF coll[i]._id = hotelId
       THEN [coll[i] EXCEPT !.bookings = Append(@, newBooking)]
       ELSE coll[i]]

\* lines 153-182: await stripe.paymentIntents.retrieve, then the checks.
\* For an id the provider does not know the call throws (the SDK) or
\* yields nothing (the branch of line 160).
ConfirmBooking(userId, hotelId, body) ==
  LET r0 == [NewRequest("confirm", userId, hotelId, body, NoQuery)
               EXCEPT !.confirmedBefore = Len(confirmed)]
      paymentIntentId == body.paymentIntentId
  IN  /\ accepted' = accepted + 1
      /\ \/ /\ paymentIntentId \in DOMAIN intents
            /\ LET paymentIntent == intents[paymentIntentId]
                   r1 == [r0 EXCEPT !.paymentIntent = paymentIntent]
               IN  IF MetadataMismatch(paymentIntent, hotelId, userId)
                     THEN Finish(r0, Respond(r1, 400, "Payment intent metadata mismatch", << >>))
                   ELSE IF NotSucceeded(paymentIntent)
                     THEN Finish(r0, Respond(r1, 400, "Payment not succeeded", << >>))
                   ELSE Await(r0, [r1 EXCEPT !.pc = "update",
                                     !.local = NewBooking(body, userId)])
         \/ /\ paymentIntentId \notin DOMAIN intents
            /\ Finish(r0, Respond(r0, 400, "Payment intent not found", << >>))
         \/ Finish(r0, Caught(r0, "Something went wrong"))
      /\ UNCHANGED <<hotels, intents, customers, issued, confirmed, client>>

\* mutant of ConfirmBookingUpdate: a read-modify-write. The handler writes
\* back the bookings it read when it retrieved the intent, plus its own.
ConfirmBookingUpdateReadModifyWrite(r0) ==
  /\ r0 \in Waiting("confirm", "update")
  /\ LET r == DbCall(r0)
         read == Len(SelectSeq(SubSeq(confirmed, 1, r.confirmedBefore),
                               LAMBDA c : c.hotelId = r.hotelId))
     IN  /\ findById(hotels, r.hotelId) # NoDoc
         /\ hotels' = [i \in DOMAIN hotels |->
                         IF hotels[i]._id = r.hotelId
                           THEN [hotels[i] EXCEPT !.bookings =
                                   Append(SubSeq(@, 1, read), r.local)]
                           ELSE hotels[i]]
         /\ confirmed' = Append(confirmed,
               [hotelId |-> r.hotelId, userId |-> r.userId,
                paymentIntentId |-> r.body.paymentIntentId])
         /\ Finish(r0, Respond(r, 200, "Booking successful", << >>))
  /\ UNCHANGED <<intents, customers, accepted, issued, client>>

\* lines 184-196: await Hotel.findOneAndUpdate, then answer
ConfirmBookingUpdate(r0) ==
  /\ r0 \in Waiting("confirm", "update")
  /\ LET r == DbCall(r0)
     IN  \/ IF findById(hotels, r.hotelId) = NoDoc
              THEN /\ Finish(r0, Respond(r, 404, "Hotel not found", << >>))
                   /\ UNCHANGED <<hotels, confirmed>>
              ELSE /\ hotels' = PushBooking(hotels, r.hotelId, r.local)
                   /\ confirmed' = Append(confirmed,
                        [hotelId |-> r.hotelId, userId |-> r.userId,
                         paymentIntentId |-> r.body.paymentIntentId])
                   /\ Finish(r0, Respond(r, 200, "Booking successful", << >>))
         \/ /\ Finish(r0, Caught(r, "Something went wrong"))
            /\ UNCHANGED <<hotels, confirmed>>
  /\ UNCHANGED <<intents, customers, accepted, issued, client>>

---------------------------------------------------------------------------
(* The collection *)

Goa == <<"G", "o", "a">>
Ooty == <<"O", "o", "t", "y">>
India == <<"I", "n", "d", "i", "a">>
UK == <<"U", "K">>

Hotel(id, city, country, adultCount, childCount, facilities, type, starRating, pricePerNight, lastUpdated) ==
  [_id |-> id, city |-> city, country |-> country,
   adultCount |-> adultCount, childCount |-> childCount,
   facilities |-> facilities, type |-> type, starRating |-> starRating,
   pricePerNight |-> pricePerNight, lastUpdated |-> lastUpdated,
   bookings |-> << >>]

Bath == <<"B", "a", "t", "h">>
Wifi == <<"w", "i", "f", "i">>
Pool == <<"p", "o", "o", "l">>
Resort == <<"r", "e", "s", "o", "r", "t">>
Budget == <<"b", "u", "d", "g", "e", "t">>
Luxury == <<"l", "u", "x", "u", "r", "y">>

SeedHotels ==
  << Hotel(1, Goa, India, 2, 1, <<Wifi, Pool>>, Resort, 4, 3, 10),
     Hotel(2, Ooty, India, 2, 0, <<Wifi>>, Budget, 3, 2, 20) >>

Query(destination, adultCount, childCount, facilities, types, stars, maxPrice, sortOption, page) ==
  [destination |-> destination, adultCount |-> adultCount,
   childCount |-> childCount, facilities |-> facilities, types |-> types,
   stars |-> stars, maxPrice |-> maxPrice, sortOption |-> sortOption,
   page |-> page]

\* the queries the clients of Spec send
SpecQueries ==
  { Query(d, Absent, Absent, Absent, Absent, Absent, Absent, s, Absent) :
      d \in {Absent, Str(<<"g", "O">>)}, s \in {Str("starRating")} }


---------------------------------------------------------------------------
(* Spec: all five endpoints, requests interleaved at their awaits *)

Init ==
  /\ hotels = SeedHotels
  /\ intents = << >>
  /\ customers = 0
  /\ inflight = EmptyBag
  /\ completed = NoRequest
  /\ accepted = 0
  /\ issued = {}
  /\ confirmed = << >>
  /\ client = << >>

Next ==
  \/ accepted < MaxRequests /\ \E q \in SpecQueries : Search(q)
  \/ \E r \in BagToSet(inflight) : SearchCount(r)
  \/ accepted < MaxRequests /\ ListAll
  \/ accepted < MaxRequests /\ \E id \in HotelIds : GetById(id)
  \/ accepted < MaxRequests
       /\ \E u \in Users, h \in HotelIds, n \in Nights : PaymentIntent(u, h, n)
  \/ \E r \in BagToSet(inflight) : PaymentIntentCustomer(r)
  \/ \E r \in BagToSet(inflight) : PaymentIntentCreate(r)
  \/ accepted < MaxRequests
       /\ \E u \in Users, h \in HotelIds, b \in Bodies : ConfirmBooking(u, h, b)
  \/ \E r \in BagToSet(inflight) : ConfirmBookingUpdate(r)
  \/ \E id \in DOMAIN intents : PaymentSucceeds(id)

Spec == Init /\ [][Next]_vars

---------------------------------------------------------------------------
(* SpecPage: a client pages through one search, page 1, 2, ..., against a  *)
(* fixed collection of up to MaxHotels hotels.                             *)

\* hotel i of the paged collection: prices are distinct, star ratings not
PageHotel(i) ==
  Hotel(i, Goa, India, 2, 1, <<Wifi>>, Resort, 3 + (i % 2), i, i)

SortOptionParams ==
  {AbsentOption, Str("starRating"), Str("pricePerNightAsc"), Str("pricePerNightDesc")}

DigitOf(n) == CHOOSE c \in Digits : DigitValue(c) = n

\* how a client writes page number n in the query string
PageParams(n) ==
  IF n = 1 THEN {Absent, Str(<<"1">>)} ELSE {Str(<<DigitOf(n)>>)}

PageQueries ==
  { Query(Absent, Absent, Absent, Absent, Absent, Absent, m, s, p) :
      m \in {Absent, Str(<<"6">>)}, s \in SortOptionParams,
      p \in UNION { PageParams(n) : n \in 1..MaxPage } }

SameSearch(q1, q2) == [q1 EXCEPT !.page = Absent] = [q2 EXCEPT !.page = Absent]

InitPage ==
  /\ \E n \in 0..MaxHotels : hotels = [i \in 1..n |-> PageHotel(i)]
  /\ intents = << >>
  /\ customers = 0
  /\ inflight = EmptyBag
  /\ completed = NoRequest
  /\ accepted = 0
  /\ issued = {}
  /\ confirmed = << >>
  /\ client = << >>

\* the client asks for the next page of its search
ClientAsks(q) ==
  /\ inflight = EmptyBag
  /\ Len(client) = accepted
  /\ accepted < MaxPage
  /\ q.page \in PageParams(accepted + 1)
  /\ accepted = 0 \/ SameSearch(q, completed.query)

\* the client receives the response to its last request
ClientReceives ==
  /\ inflight = EmptyBag
  /\ Len(client) < accepted
  /\ client' = Append(client, completed)
  /\ UNCHANGED <<hotels, intents, customers, inflight, completed, accepted,
                 issued, confirmed>>

NextPage ==
  \/ \E q \in PageQueries : ClientAsks(q) /\ Search(q)
  \/ \E r \in BagToSet(inflight) : SearchCount(r)
  \/ ClientReceives

SpecPage == InitPage /\ [][NextPage]_vars

---------------------------------------------------------------------------
(* SpecFilter: one search request, with any combination of filters,        *)
(* against any collection of up to MaxFilterHotels hotels drawn from       *)
(* FilterProfiles.                                                         *)

FilterProfiles ==
  { Hotel(0, Goa, India, 2, 1, <<Wifi, Pool>>, Resort, 4, 3, 10),
    Hotel(0, Ooty, India, 2, 0, <<Wifi>>, Budget, 3, 2, 20),
    Hotel(0, Bath, UK, 1, 2, << >>, Luxury, 5, 12, 30) }

FilterCollections ==
  UNION { { [i \in 1..n |-> [c[i] EXCEPT !._id = i]] :
              c \in [1..n -> FilterProfiles] } : n \in 1..MaxFilterHotels }

FilterQueries ==
  { Query(d, a, c, f, t, s, m, AbsentOption, Absent) :
      d \in {Absent, Str(<< >>), Str(<<"g", "O">>), Str(<<"u", "k">>), Str(<<"i", "n">>)},
      a \in {Absent, Str(<<"2">>), Str(<<"0">>)},
      c \in {Absent, Str(<<"1">>)},
      f \in {Absent, Str(<< >>), Str(Wifi), Arr(<<Pool, Wifi>>)},
      t \in {Absent, Str(Resort), Arr(<<Budget, Luxury>>)},
      s \in {Absent, Str(<<"4">>), Arr(<< <<"3">>, <<"0", "5">> >>)},
      m \in {Absent, Str(<<"2">>), Str(<<"1", "0">>)} }

InitFilter ==
  /\ hotels \in FilterCollections
  /\ intents = << >>
  /\ customers = 0
  /\ inflight = EmptyBag
  /\ completed = NoRequest
  /\ accepted = 0
  /\ issued = {}
  /\ confirmed = << >>
  /\ client = << >>

NextFilter ==
  \/ accepted = 0 /\ \E q \in FilterQueries : Search(q)
  \/ \E r \in BagToSet(inflight) : SearchCount(r)

SpecFilter == InitFilter /\ [][NextFilter]_vars

---------------------------------------------------------------------------
(* What the claims speak of *)

\* the hotel with id h, when the collection holds one
Exists(h) == \E i \in DOMAIN hotels : hotels[i]._id = h
BookingsOf(h) == findById(hotels, h).bookings

\* the confirm-booking requests answered 200 for hotel h, in order
ConfirmedFor(h) == SelectSeq(confirmed, LAMBDA c : c.hotelId = h)

\* every request the router holds or has just finished
Requests == BagToSet(inflight) \cup {completed}

IsConfirm(r) == r.endpoint = "confirm"
Retrieved(r) == IsConfirm(r) /\ r.paymentIntent # NoIntent

\* C1: a booking is in a hotel's list only by a confirm-booking request
\* whose retrieved payment intent had status "succeeded": every request
\* that has passed the checks or was answered 200 holds a retrieved intent
\* with status "succeeded", every hotel has exactly as many bookings as
\* confirm requests were answered 200 for it, and a confirm request whose
\* retrieved intent has another status is answered 400.
C1_BookedOnlyWhenSucceeded ==
  /\ \A r \in Requests :
       IsConfirm(r) /\ (r.pc = "update" \/ r.status = 200)
         => Retrieved(r) /\ r.paymentIntent.status = "succeeded"
  /\ \A i \in DOMAIN hotels :
       Len(hotels[i].bookings) = Len(ConfirmedFor(hotels[i]._id))
  /\ \A r \in Requests :
       Retrieved(r) /\ r.paymentIntent.status # "succeeded"
         => r.pc = "done" /\ r.status = 400

C1_Witness ==
  /\ IsConfirm(completed) /\ completed.status = 200
  /\ completed.paymentIntent.status = "succeeded"
  /\ Len(BookingsOf(completed.hotelId)) = 1

\* C2: a confirm-booking request by user U for hotel H is answered 200 only
\* if the payment-intent endpoint earlier handed out the intent it names to
\* the same user U for the same hotel H; a confirm request whose retrieved
\* intent carries another hotel or another user is answered 400 "Payment
\* intent metadata mismatch" and never reaches the database update.
C2_ConfirmNeedsOwnIntent ==
  /\ \A r \in Requests :
       IsConfirm(r) /\ (r.pc = "update" \/ r.status = 200)
         => [paymentIntentId |-> r.body.paymentIntentId,
             hotelId |-> r.hotelId, userId |-> r.userId] \in issued
  /\ \A k \in DOMAIN confirmed :
       [paymentIntentId |-> confirmed[k].paymentIntentId,
        hotelId |-> confirmed[k].hotelId, userId |-> confirmed[k].userId] \in issued
  /\ \A r \in Requests :
       Retrieved(r) /\ (r.paymentIntent.metadata.hotelId # r.hotelId
                          \/ r.paymentIntent.metadata.userId # r.userId)
         => /\ r.pc = "done" /\ r.status = 400
            /\ r.message = "Payment intent metadata mismatch"

\* a succeeded intent of another user for the same hotel is refused
C2_Witness ==
  /\ Retrieved(completed)
  /\ completed.paymentIntent.status = "succeeded"
  /\ completed.paymentIntent.metadata.hotelId = completed.hotelId
  /\ completed.paymentIntent.metadata.userId # completed.userId
  /\ completed.status = 400
  /\ \A i \in DOMAIN hotels : hotels[i].bookings = << >>

\* C3 (as claimed): whenever a database or provider call of a request
\* throws, the request is answered with status 500.
C3_ThrowAnswered500 ==
  \A r \in Requests : r.threw => r.status = 500

\* C4 (as claimed): no request issues more than one database operation.
C4_SingleDbCall ==
  \A r \in Requests : r.dbCalls <= 1

\* C4 (amended): a search request issues at most two database operations
\* (find, then countDocuments), a request to any other endpoint at most
\* one; a search answered 200 has issued exactly two.
C4_DbCallsPerRequest ==
  /\ \A r \in Requests :
       r.dbCalls <= (IF r.endpoint = "search" THEN 2 ELSE 1)
  /\ completed.endpoint = "search" /\ completed.status = 200
       => completed.dbCalls = 2

C4_Witness ==
  /\ completed.endpoint = "search" /\ completed.status = 200
  /\ completed.dbCalls = 2

\* C5: confirm booking has no idempotency: a confirm request whose intent
\* is succeeded and carries its hotel and user, and whose calls do not
\* throw, is answered 200 however often that intent was confirmed before,
\* and the hotel's list holds one booking per 200 answer, not one per
\* intent.
C5_NoIdempotency ==
  /\ \A r \in Requests :
       /\ Retrieved(r) /\ r.pc \in {"done"} /\ ~r.threw
       /\ r.paymentIntent.status = "succeeded"
       /\ r.paymentIntent.metadata.hotelId = r.hotelId
       /\ r.paymentIntent.metadata.userId = r.userId
       => r.status = 200
  /\ \A h \in HotelIds, id \in IntentIds :
       Exists(h) =>
         Cardinality({k \in DOMAIN BookingsOf(h) :
                        BookingsOf(h)[k].paymentIntentId = id})
           = Cardinality({k \in DOMAIN confirmed :
                            confirmed[k].hotelId = h /\ confirmed[k].paymentIntentId = id})

\* the same user has confirmed the same intent for the same hotel twice
C5_Witness ==
  /\ Len(confirmed) = 2
  /\ confirmed[1] = confirmed[2]
  /\ IsConfirm(completed) /\ completed.status = 200
  /\ Len(BookingsOf(completed.hotelId)) = 2

\* C8: frame of the booking write. A step in which a confirm-booking
\* request is answered 200 appends exactly one booking at the end of the
\* bookings of the hotel the request names and changes nothing else in the
\* collection; every other step leaves the collection as it is.
C8_BookingFrame ==
  [][ IF confirmed' # confirmed
        THEN /\ IsConfirm(completed') /\ completed'.status = 200
             /\ DOMAIN hotels' = DOMAIN hotels
             /\ \A i \in DOMAIN hotels :
                  IF hotels[i]._id = completed'.hotelId
                    THEN /\ Len(hotels'[i].bookings) = Len(hotels[i].bookings) + 1
                         /\ SubSeq(hotels'[i].bookings, 1, Len(hotels[i].bookings))
                              = hotels[i].bookings
                         /\ \A f \in DOMAIN hotels[i] \ {"bookings"} :
                              hotels'[i][f] = hotels[i][f]
                    ELSE hotels'[i] = hotels[i]
        ELSE hotels' = hotels ]_vars

C8_Witness ==
  /\ IsConfirm(completed) /\ completed.status = 200
  /\ \E i, j \in DOMAIN hotels :
       /\ hotels[i]._id = completed.hotelId
       /\ Len(hotels[i].bookings) = 2
       /\ hotels[j].bookings = << >>

\* C9: no booking is lost when confirm requests interleave: the bookings
\* of every hotel are, in order, the bookings of the confirm requests
\* answered 200 for it, one for each.
C9_NoLostBooking ==
  \A i \in DOMAIN hotels :
    LET answered == ConfirmedFor(hotels[i]._id)
    IN  /\ Len(hotels[i].bookings) = Len(answered)
        /\ \A k \in DOMAIN answered :
             /\ hotels[i].bookings[k].paymentIntentId = answered[k].paymentIntentId
             /\ hotels[i].bookings[k].userId = answered[k].userId

\* a confirm request is answered 200 after another booking of the same
\* hotel was confirmed between its retrieval and its update
C9_Witness ==
  /\ IsConfirm(completed) /\ completed.status = 200
  /\ completed.confirmedBefore = 0
  /\ Len(ConfirmedFor(completed.hotelId)) = 2

\* C10: a stored booking belongs to the authenticated requester: its
\* userId is the user id of the request that was answered 200 for it,
\* whatever userId the body carried, and the retrieved intent's metadata
\* names the same user.
C10_BookingOfRequester ==
  /\ \A r \in Requests :
       IsConfirm(r) /\ (r.pc = "update" \/ r.status = 200)
         => /\ r.local.userId = r.userId
            /\ r.paymentIntent.metadata.userId = r.userId
  /\ \A i \in DOMAIN hotels :
       LET answered == ConfirmedFor(hotels[i]._id)
       IN  \A k \in DOMAIN hotels[i].bookings :
             /\ k <= Len(answered)
             /\ hotels[i].bookings[k].userId = answered[k].userId
             /\ intents[answered[k].paymentIntentId].metadata.userId
                  = hotels[i].bookings[k].userId

\* the body named another user than the requester
C10_Witness ==
  /\ IsConfirm(completed) /\ completed.status = 200
  /\ "userId" \in DOMAIN completed.body
  /\ completed.body.userId # completed.userId
  /\ LET b == BookingsOf(completed.hotelId)
     IN  b[Len(b)].userId = completed.userId

---------------------------------------------------------------------------
(* Search claims *)

\* the decimal value of a string of digits
RECURSIVE DecimalValue(_)
DecimalValue(s) ==
  IF s = << >> THEN 0
  ELSE DecimalValue(SubSeq(s, 1, Len(s) - 1)) * 10 + DigitValue(s[Len(s)])

LowerCase(s) == [i \in DOMAIN s |-> Lower(s[i])]

\* s holds pattern as a substring, letter case ignored
ContainsIgnoringCase(s, pattern) ==
  \E a \in 1..(Len(s) + 1), b \in 0..Len(s) :
    LowerCase(SubSeq(s, a, b)) = LowerCase(pattern)

\* a parameter that is absent or empty imposes no constraint
Supplied(v) == v.kind # "absent" /\ v.val # << >>

\* the values a parameter requests: a single value is a one-element list
Requested(v) ==
  IF v.kind = "array" THEN {v.val[i] : i \in DOMAIN v.val} ELSE {v.val}

Elements(array) == {array[i] : i \in DOMAIN array}

\* hotel h passes every filter the query supplies
SatisfiesFilters(h, q) ==
  /\ Supplied(q.destination) =>
       \/ ContainsIgnoringCase(h.city, q.destination.val)
       \/ ContainsIgnoringCase(h.country, q.destination.val)
  /\ Supplied(q.adultCount) => h.adultCount >= DecimalValue(q.adultCount.val)
  /\ Supplied(q.childCount) => h.childCount >= DecimalValue(q.childCount.val)
  /\ Supplied(q.facilities) => Requested(q.facilities) \subseteq Elements(h.facilities)
  /\ Supplied(q.types) => h.type \in Requested(q.types)
  /\ Supplied(q.stars) =>
       h.starRating \in {DecimalValue(x) : x \in Requested(q.stars)}
  /\ Supplied(q.maxPrice) => h.pricePerNight <= DecimalValue(q.maxPrice.val)

SuppliedFilters(q) ==
  {f \in {"destination", "adultCount", "childCount", "facilities", "types",
          "stars", "maxPrice"} : Supplied(q[f])}

SearchAnswered(r) == r.endpoint = "search" /\ r.status = 200

\* C7: search filtering is the conjunction of the supplied filters: the
\* hotels a search returns are hotels of the collection that pass every
\* supplied filter, pagination.total is the number of hotels that pass
\* them, and a collection that fits on one page is returned in full, so
\* no other constraint is applied.
C7_FilterConjunction ==
  SearchAnswered(completed) =>
    LET q == completed.query
        data == completed.data.data
        passing == {i \in DOMAIN hotels : SatisfiesFilters(hotels[i], q)}
    IN  /\ \A k \in DOMAIN data :
             \E i \in passing : data[k] = hotels[i]
        /\ completed.data.pagination.total = Cardinality(passing)
        /\ Cardinality(passing) <= pageSize =>
             \A i \in passing : \E k \in DOMAIN data : data[k] = hotels[i]

\* three or more filters at once, one hotel returned and one left out
C7_Witness ==
  /\ SearchAnswered(completed)
  /\ Cardinality(SuppliedFilters(completed.query)) >= 3
  /\ Len(completed.data.data) = 1
  /\ Len(hotels) = 2

\* the responses the paging client has received for pages 1..n, all 200
ReceivedPages(n) ==
  /\ n <= Len(client)
  /\ \A p \in 1..n : SearchAnswered(client[p])

\* C6 (as claimed): pagination partitions the result set. There is one
\* sorted list of the matching hotels such that every page p the client
\* has received holds the hotels at positions (p-1)*5+1 .. p*5 of it (at
\* most 5), total is the number of matching hotels and pages is
\* ceil(total/5); so pages 1..pages hold every matching hotel exactly
\* once and a page beyond pages is empty.
C6_PagesPartition ==
  \A n \in 1..Len(client) :
    ReceivedPages(n) =>
      LET q == client[1].query
          matching == MatchingDocs(hotels, constructSearchQuery(q))
          total == Len(matching)
      IN  /\ \A p \in 1..n :
                /\ client[p].data.pagination.total = total
                /\ client[p].data.pagination.pages * pageSize >= total
                /\ (client[p].data.pagination.pages - 1) * pageSize < total
                     \/ (total = 0 /\ client[p].data.pagination.pages = 0)
                /\ Len(client[p].data.data) <= pageSize
          /\ \E sorted \in SortOrders(matching, SortOptionsOf(q.sortOption)) :
               \A p \in 1..n :
                 LET data == client[p].data.data
                 IN  /\ \A k \in DOMAIN data : data[k] = sorted[(p - 1) * pageSize + k]
                     /\ Len(data) = IF p * pageSize <= total THEN pageSize
                                    ELSE IF (p - 1) * pageSize >= total THEN 0
                                    ELSE total - (p - 1) * pageSize

====
